---------------------------- MODULE Spec2Model ----------------------------
(***************************************************************************)
(* A model of the IEX Cloud client (src/iex_api.py, class IEXApi) and of   *)
(* the tabular analysis built on it (src/analysis.py, class Analysis).     *)
(*                                                                         *)
(* Python values are tagged records [tag, val] whose val is a sequence of  *)
(* strings: a list of symbols is the sequence of its elements, a str is    *)
(* the sequence of the pieces it was concatenated from.                    *)
(***************************************************************************)
EXTENDS Integers, Sequences, FiniteSets, TLC

VARIABLES
    call,    \* the last call made on the client, with its arguments
    ret,     \* the value that call returned
    raised,  \* the exception that call let through, or "none"
    trace,   \* what the call logged, built and sent, in program order
    gen,     \* a generator made by IEXApi._chunk_symbols_list
    flat,    \* the last run of the response flattener
    mom      \* the last run of Analysis.momentum_analysis

vars == <<call, ret, raised, trace, gen, flat, mom>>
client == <<call, ret, raised, trace>>

---------------------------------------------------------------------------
(* Bounds of the model *)

\* longest list of symbols / dataset names enumerated element by element
MaxLen == 2

(* Program constants *)

\* iex_api.py:60 and :79, "if len(symbols) > 100"
BatchLimit == 100

\* self.base_url and self.token, set in IEXApi.__init__
BaseUrl == "https://sandbox.iexapis.com"
Token == "TOKEN"

\* the value _create_request returns from its except branch
Sentinel == <<"fuck off">>

\* what requests.get can do: answer with a status code, or raise
HttpStatus == {"200", "404"}
HttpExceptions == {"ConnectionError"}
HttpOutcomes == HttpStatus \cup HttpExceptions

---------------------------------------------------------------------------
(* Python values *)

PyNone == [tag |-> "None", val |-> <<>>]
PyList(s) == [tag |-> "list", val |-> s]
PyStr(s) == [tag |-> "str", val |-> s]
Response(status, url) == [tag |-> "Response", val |-> <<status>> \o url]

isinstance_list(v) == v.tag = "list"

\* (variant: the elements joined last to first)
JoinReversed(xs, sep) ==
    IF xs = <<>> THEN <<>>
    ELSE [i \in 1..(2 * Len(xs) - 1) |->
            IF i % 2 = 1 THEN xs[Len(xs) + 1 - (i + 1) \div 2] ELSE sep]
\* sep.join(xs): the elements in order with sep between neighbours
Join(xs, sep) ==
    IF xs = <<>> THEN <<>>
    ELSE [i \in 1..(2 * Len(xs) - 1) |->
            IF i % 2 = 1 THEN xs[(i + 1) \div 2] ELSE sep]

---------------------------------------------------------------------------
(* Observable events of one call, in program order *)

Event(ev, arg) == [ev |-> ev, arg |-> arg]
\* the outcome of a handler: returned value, propagated exception, events
Outcome(r, exc, events) == [ret |-> r, raised |-> exc, events |-> events]

\* IEXApi._create_request: the try body and the except branch
create_request(request_type, symbols, data_set) ==
    IF request_type = "stat" \/ request_type = "info"
    THEN IF ~isinstance_list(symbols) \/ symbols.tag = "None"
            \/ ~isinstance_list(data_set) \/ data_set.tag = "None"
         THEN \* raise TypeError, caught below
              Outcome(PyStr(Sentinel), "none",
                      <<Event("error", <<"Received Error", "TypeError">>),
                        Event("created", Sentinel)>>)
         ELSE LET joined_data_set == Join(data_set.val, ",")
                  joined_symbols == Join(symbols.val, ",")
                  url == <<BaseUrl, "/stable/stock/market/batch?symbols=">>
                         \o joined_symbols \o <<"&types=">>
                         \o joined_data_set \o <<"&">>
              IN Outcome(PyStr(url), "none", <<Event("created", url)>>)
    ELSE IF request_type = "sector_list"
    THEN LET url == <<BaseUrl, "/stable/ref-data/sectors?">>
         IN Outcome(PyStr(url), "none", <<Event("created", url)>>)
    ELSE \* raise NotImplementedError, caught below
         Outcome(PyStr(Sentinel), "none",
                 <<Event("error", <<"Received Error", "NotImplementedError">>),
                   Event("created", Sentinel)>>)


\* (variant: a _send_request that would not send the sentinel)
send_request_guarded(request, outcome) ==
    IF request.val = Sentinel
    THEN Outcome(PyNone, "none", <<>>)
    ELSE LET url == request.val \o <<"token=", Token>>
         IN Outcome(Response(outcome, url), "none",
                    <<Event("info", <<"Sending Request - ">> \o url),
                      Event("GET", url),
                      Event("info", <<"Request Status Code - ", outcome>>)>>)
\* IEXApi._send_request; outcome is what requests.get does: a status code
\* of the response, or the name of the exception it raises
send_request(request, outcome) ==
    LET url == request.val \o <<"token=", Token>>
    IN IF outcome \in HttpExceptions
       THEN Outcome(PyNone, outcome,
                    <<Event("info", <<"Sending Request - ">> \o url),
                      Event("GET", url)>>)
       ELSE Outcome(Response(outcome, url), "none",
                    <<Event("info", <<"Sending Request - ">> \o url),
                      Event("GET", url),
                      Event("info", <<"Request Status Code - ", outcome>>)>>)

\* req = self._create_request(...); data = self._send_request(req); return data
create_and_send(request_type, symbols, data_set, outcome) ==
    LET c == create_request(request_type, symbols, data_set)
        s == send_request(c.ret, outcome)
    IN Outcome(s.ret, s.raised, c.events \o s.events)

\* (variant: a limit that refuses 100 symbols too)
TooManySymbolsGE(symbols) == Len(symbols.val) >= BatchLimit
\* the length check of get_stats and get_advanced_stats
TooManySymbols(symbols) == Len(symbols.val) > BatchLimit

\* get_stats and get_advanced_stats differ in the dataset list only
batched_stats(symbols, data_set, outcome) ==
    IF symbols.tag = "None"
    THEN \* len(None) raises TypeError, outside any try
         Outcome(PyNone, "TypeError", <<>>)
    ELSE IF TooManySymbols(symbols)
    THEN Outcome(PyNone, "none",
                 <<Event("error", <<"len(symbols) > 100">>)>>)
    ELSE create_and_send("stat", symbols, data_set, outcome)

get_symbol_info(symbols, outcome) ==
    create_and_send("info", symbols, PyList(<<"company">>), outcome)
get_stats(symbols, outcome) ==
    batched_stats(symbols, PyList(<<"stats", "price">>), outcome)
get_advanced_stats(symbols, outcome) ==
    batched_stats(symbols, PyList(<<"advanced-stats">>), outcome)
get_sector_list(outcome) ==
    create_and_send("sector_list", PyNone, PyNone, outcome)

\* Analysis.get_peers calls _create_request without its required positional
\* argument request_type: Python raises TypeError while binding the call,
\* before the try block of _create_request is entered
get_peers(symbols, outcome) ==
    Outcome(PyNone, "TypeError", <<>>)

---------------------------------------------------------------------------
(* The client as a state machine: every step is one call from outside, and  *)
(* the variables hold what that call did.                                   *)

Syms == {"AAPL", "MSFT"}
DataSets == {"stats", "price"}
RequestTypes == {"stat", "info", "sector_list", "quote"}

SeqsUpTo(S, n) == UNION {[1..k -> S] : k \in 0..n}
\* a str of k characters: it has a length and is not a list
StrOfLen(k) == PyStr([i \in 1..k |-> "A"])
\* a list of k symbols
ListOfLen(k) == PyList([i \in 1..k |-> IF i % 2 = 1 THEN "AAPL" ELSE "MSFT"])
\* arguments enumerated in full: None, a str, every short list over S
ShortArgs(S) ==
    {PyNone, StrOfLen(4)} \cup {PyList(x) : x \in SeqsUpTo(S, MaxLen)}
\* arguments of the fetchers: the short ones and those around the limit
FetchArgs ==
    ShortArgs(Syms)
      \cup {ListOfLen(k) : k \in (BatchLimit - 1)..(BatchLimit + 1)}
      \cup {StrOfLen(BatchLimit + 1)}

NoCall ==
    [fn |-> "none", request_type |-> "", symbols |-> PyNone,
     data_set |-> PyNone, outcome |-> ""]

Call(fn, rt, symbols, data_set, outcome) ==
    [fn |-> fn, request_type |-> rt, symbols |-> symbols,
     data_set |-> data_set, outcome |-> outcome]

CreateRequest ==
    \E rt \in RequestTypes, s \in ShortArgs(Syms), d \in ShortArgs(DataSets) :
        LET o == create_request(rt, s, d)
        IN /\ call' = Call("_create_request", rt, s, d, "")
           /\ ret' = o.ret
           /\ raised' = o.raised
           /\ trace' = o.events
           /\ UNCHANGED <<gen, flat, mom>>

GetSymbolInfo ==
    \E s \in FetchArgs, h \in HttpOutcomes :
        LET o == get_symbol_info(s, h)
        IN /\ call' = Call("get_symbol_info", "", s, PyNone, h)
           /\ ret' = o.ret
           /\ raised' = o.raised
           /\ trace' = o.events
           /\ UNCHANGED <<gen, flat, mom>>

GetStats ==
    \E s \in FetchArgs, h \in HttpOutcomes :
        LET o == get_stats(s, h)
        IN /\ call' = Call("get_stats", "", s, PyNone, h)
           /\ ret' = o.ret
           /\ raised' = o.raised
           /\ trace' = o.events
           /\ UNCHANGED <<gen, flat, mom>>

GetAdvancedStats ==
    \E s \in FetchArgs, h \in HttpOutcomes :
        LET o == get_advanced_stats(s, h)
        IN /\ call' = Call("get_advanced_stats", "", s, PyNone, h)
           /\ ret' = o.ret
           /\ raised' = o.raised
           /\ trace' = o.events
           /\ UNCHANGED <<gen, flat, mom>>

GetSectorList ==
    \E h \in HttpOutcomes :
        LET o == get_sector_list(h)
        IN /\ call' = Call("get_sector_list", "", PyNone, PyNone, h)
           /\ ret' = o.ret
           /\ raised' = o.raised
           /\ trace' = o.events
           /\ UNCHANGED <<gen, flat, mom>>

GetPeers ==
    \E s \in FetchArgs, h \in HttpOutcomes :
        LET o == get_peers(s, h)
        IN /\ call' = Call("get_peers", "", s, PyNone, h)
           /\ ret' = o.ret
           /\ raised' = o.raised
           /\ trace' = o.events
           /\ UNCHANGED <<gen, flat, mom>>

\* the parts of the state a specification does not use
NoGen == [symbols |-> <<>>, n |-> 1, i |-> 0, yielded |-> <<>>, pc |-> "none"]
NoFlat == [fn |-> "none", outcome |-> "none"]
NoMom == [fn |-> "none"]
ClientIdle ==
    /\ call = NoCall
    /\ ret = PyNone
    /\ raised = "none"
    /\ trace = <<>>

Init ==
    /\ ClientIdle
    /\ gen = NoGen
    /\ flat = NoFlat
    /\ mom = NoMom

Next ==
    \/ CreateRequest
    \/ GetSymbolInfo
    \/ GetStats
    \/ GetAdvancedStats
    \/ GetSectorList
    \/ GetPeers

Spec == Init /\ [][Next]_vars

---------------------------------------------------------------------------
(* Reading the trace of a call *)

IsGet(e) == e.ev = "GET"
IsCreated(e) == e.ev = "created"
IsError(e) == e.ev = "error"
\* the URLs requests.get was called on, the values _create_request returned,
\* and the error lines logged
Gets == SelectSeq(trace, IsGet)
Created == SelectSeq(trace, IsCreated)
Errors == SelectSeq(trace, IsError)

HasLen(v) == v.tag \in {"list", "str"}
NonEmptyList(v) == v.tag = "list" /\ Len(v.val) >= 1
BatchKinds == {"stat", "info"}
BatchPath == "/stable/stock/market/batch?symbols="

\* u is <base>/stable/stock/market/batch?symbols=s1,s2,..&types=d1,d2,..&
\* stated position by position
IsBatchUrl(u, s, d) ==
    /\ Len(u) = 2 * Len(s) + 2 * Len(d) + 2
    /\ u[1] = BaseUrl
    /\ u[2] = BatchPath
    /\ \A i \in 1..Len(s) : u[2 * i + 1] = s[i]
    /\ \A i \in 1..(Len(s) - 1) : u[2 * i + 2] = ","
    /\ u[2 * Len(s) + 2] = "&types="
    /\ \A j \in 1..Len(d) : u[2 * Len(s) + 2 * j + 1] = d[j]
    /\ \A j \in 1..(Len(d) - 1) : u[2 * Len(s) + 2 * j + 2] = ","
    /\ u[Len(u)] = "&"
    /\ \A k \in 1..Len(u) : u[k] \notin {Token, "token="}

\* C1: for kind stat or info and non-empty lists of symbols and of dataset
\* names, _create_request returns exactly
\* <base>/stable/stock/market/batch?symbols=<symbols joined by ','>&types=
\* <dataset names joined by ','>&, elements in input order, without the
\* token; the same holds of the URL get_stats builds for its symbols.
C1_BatchUrlExact ==
    /\ ( /\ call.fn = "_create_request"
         /\ call.request_type \in BatchKinds
         /\ NonEmptyList(call.symbols)
         /\ NonEmptyList(call.data_set) )
       => /\ raised = "none"
          /\ ret.tag = "str"
          /\ IsBatchUrl(ret.val, call.symbols.val, call.data_set.val)
    /\ ( /\ call.fn = "get_stats"
         /\ NonEmptyList(call.symbols)
         /\ Len(call.symbols.val) <= BatchLimit )
       => /\ Len(Created) = 1
          /\ IsBatchUrl(Created[1].arg, call.symbols.val, <<"stats", "price">>)

\* the example of the specification, literally
C1_Witness ==
    /\ call.fn = "_create_request"
    /\ call.request_type = "stat"
    /\ call.symbols = PyList(<<"AAPL", "MSFT">>)
    /\ call.data_set = PyList(<<"stats", "price">>)
    /\ ret = PyStr(<<BaseUrl, BatchPath, "AAPL", ",", "MSFT", "&types=",
                     "stats", ",", "price", "&">>)

\* C2: for kind stat or info, an empty list of symbols or an empty list of
\* dataset names makes _create_request fail (the failure value is returned
\* and the error logged): no batch URL is returned.
C2_EmptyListRejected ==
    ( /\ call.fn = "_create_request"
      /\ call.request_type \in BatchKinds
      /\ isinstance_list(call.symbols)
      /\ isinstance_list(call.data_set)
      /\ (call.symbols.val = <<>> \/ call.data_set.val = <<>>) )
    => /\ ret = PyStr(Sentinel)
       /\ Len(Errors) = 1

\* C3: every failure of request construction is caught at the builder and
\* converted into the sentinel, nothing is raised: for an unsupported kind,
\* for kind stat/info with symbols or data_set absent or not a list, and in
\* every caller of _create_request, Analysis.get_peers included.
C3_FailuresBecomeSentinel ==
    /\ ( /\ call.fn = "_create_request"
         /\ \/ call.request_type \notin (BatchKinds \cup {"sector_list"})
            \/ /\ call.request_type \in BatchKinds
               /\ \/ ~isinstance_list(call.symbols)
                  \/ ~isinstance_list(call.data_set) )
       => /\ raised = "none"
          /\ ret = PyStr(Sentinel)
    /\ call.fn = "get_peers"
       => /\ raised # "TypeError"
          /\ Len(Created) = 1

FetcherNames ==
    {"get_symbol_info", "get_stats", "get_advanced_stats", "get_sector_list"}
\* the call got past the length check of its fetcher
PassedLengthCheck ==
    /\ call.fn \in FetcherNames
    /\ call.fn \in {"get_stats", "get_advanced_stats"}
       => /\ HasLen(call.symbols)
          /\ Len(call.symbols.val) <= BatchLimit

\* C10: in every fetcher, once the length check has passed, the value
\* _create_request returned goes to _send_request unconditionally:
\* token=<token> is appended, the full URL is logged, then exactly one GET
\* is issued on it, also when the value is the failure sentinel; an
\* exception of the HTTP layer reaches the caller.
C10_SendIsUnconditional ==
    PassedLengthCheck
    => /\ Len(Created) = 1
       /\ Len(Gets) = 1
       /\ Gets[1].arg = Created[1].arg \o <<"token=", Token>>
       /\ \E i, j \in 1..Len(trace) :
             /\ i < j
             /\ trace[i] = Event("info", <<"Sending Request - ">> \o Gets[1].arg)
             /\ trace[j].ev = "GET"
       /\ call.outcome \in HttpExceptions
          => raised = call.outcome
       /\ call.outcome \notin HttpExceptions
          => /\ raised = "none"
             /\ ret = Response(call.outcome, Gets[1].arg)

\* get_stats with a str of 4 characters: a GET on the sentinel plus token
C10_Witness ==
    /\ call.fn = "get_stats"
    /\ call.symbols = StrOfLen(4)
    /\ Created[1].arg = Sentinel
    /\ Gets[1].arg = Sentinel \o <<"token=", Token>>
    /\ call.outcome = "ConnectionError"
    /\ raised = "ConnectionError"

---------------------------------------------------------------------------
(* IEXApi._chunk_symbols_list: a generator, advanced by next()              *)

\* longest list and largest chunk size enumerated
MaxChunkLen == 5
MaxChunk == 3

\* (variant: a slice one element short)
SliceShort(symbols, i, n) ==
    SubSeq(symbols, i + 1, IF i + n - 1 < Len(symbols) THEN i + n - 1 ELSE Len(symbols))
\* symbols[i:i+n], with Python's 0-based, end-exclusive, clipped slice
Slice(symbols, i, n) ==
    SubSeq(symbols, i + 1, IF i + n < Len(symbols) THEN i + n ELSE Len(symbols))

\* the calls enumerated: every short list with every small chunk size (0
\* included, which range() refuses), and 250 symbols in chunks of 100
ChunkInputs ==
    {<<s, n>> : s \in SeqsUpTo(Syms, MaxChunkLen), n \in 0..MaxChunk}
      \cup {<<ListOfLen(2 * BatchLimit + BatchLimit \div 2).val, BatchLimit>>}

InitChunk ==
    /\ ClientIdle
    /\ flat = NoFlat
    /\ mom = NoMom
    /\ \E c \in ChunkInputs :
          gen = [symbols |-> c[1], n |-> c[2], i |-> 0, yielded |-> <<>>,
                 pc |-> "start"]

\* first next(): range(0, len(symbols), 0) raises ValueError
ChunkRaise ==
    /\ gen.pc = "start"
    /\ gen.n = 0
    /\ gen' = [gen EXCEPT !.pc = "raised"]
    /\ UNCHANGED <<client, flat, mom>>

\* next() while the range has an element left: yield symbols[i:i+n]
ChunkYield ==
    /\ gen.pc \in {"start", "running"}
    /\ gen.n >= 1
    /\ gen.i < Len(gen.symbols)
    /\ gen' = [gen EXCEPT !.yielded = Append(@, Slice(gen.symbols, gen.i, gen.n)),
                          !.i = @ + gen.n,
                          !.pc = "running"]
    /\ UNCHANGED <<client, flat, mom>>

\* next() when the range is exhausted: StopIteration
ChunkStop ==
    /\ gen.pc \in {"start", "running"}
    /\ gen.n >= 1
    /\ gen.i >= Len(gen.symbols)
    /\ gen' = [gen EXCEPT !.pc = "done"]
    /\ UNCHANGED <<client, flat, mom>>

NextChunk ==
    \/ ChunkRaise
    \/ ChunkYield
    \/ ChunkStop

\* a consumer that iterates the generator calls next() until it ends
SpecChunk == InitChunk /\ [][NextChunk]_vars /\ WF_vars(NextChunk)

RECURSIVE Concat(_)
Concat(chunks) ==
    IF chunks = <<>> THEN <<>> ELSE Head(chunks) \o Concat(Tail(chunks))

CeilDiv(a, b) == (a + b - 1) \div b

\* what has been yielded so far is a chunking of a prefix of symbols
ChunksSoFarOk ==
    /\ \A k \in 1..Len(gen.yielded) :
          /\ Len(gen.yielded[k]) >= 1
          /\ Len(gen.yielded[k]) <= gen.n
    /\ \A k \in 1..(Len(gen.yielded) - 1) : Len(gen.yielded[k]) = gen.n
    /\ Len(Concat(gen.yielded)) <= Len(gen.symbols)
    /\ Concat(gen.yielded) = SubSeq(gen.symbols, 1, Len(Concat(gen.yielded)))
ChunksFinalOk ==
    /\ Concat(gen.yielded) = gen.symbols
    /\ Len(gen.yielded) = CeilDiv(Len(gen.symbols), gen.n)

\* C4: for every list (the empty one included) and every chunk size n >= 1
\* the generator ends, each chunk has between 1 and n elements, all but the
\* last have n, the chunks concatenated in yield order are the input, and
\* there are ceil(len(symbols)/n) of them.
C4_Chunker ==
    /\ (gen.n >= 1) => <>(gen.pc = "done")
    /\ [](gen.n >= 1 => ChunksSoFarOk)
    /\ [](gen.pc = "done" => ChunksFinalOk)

\* 250 symbols in chunks of 100: three chunks of 100, 100 and 50
C4_Witness ==
    /\ gen.pc = "done"
    /\ Len(gen.symbols) = 2 * BatchLimit + BatchLimit \div 2
    /\ gen.n = BatchLimit
    /\ Len(gen.yielded) = 3
    /\ Len(gen.yielded[1]) = BatchLimit
    /\ Len(gen.yielded[2]) = BatchLimit
    /\ Len(gen.yielded[3]) = BatchLimit \div 2

---------------------------------------------------------------------------
(* The response flattener: Analysis.get_symbol_stats and                    *)
(* Analysis.get_advanced_symbol_stats, on the JSON object data.json()       *)

\* most symbols in one response
MaxFlatSyms == 2

\* cells of a DataFrame: a missing value, a number, a str, or a nested
\* JSON object given as the sequence of its [key, num] members
NaN == [tag |-> "nan", num |-> 0, str |-> "", items |-> <<>>]
Num(v) == [tag |-> "num", num |-> v, str |-> "", items |-> <<>>]
StrCell(x) == [tag |-> "str", num |-> 0, str |-> x, items |-> <<>>]
Dict(items) == [tag |-> "dict", num |-> 0, str |-> "", items |-> items]

\* row and column labels: a str (with the suffix a merge may add) or an int
StrL(x) == [tag |-> "str", s |-> x, n |-> 0, sfx |-> ""]
IntL(k) == [tag |-> "int", s |-> "", n |-> k, sfx |-> ""]

\* the elements of q in order of first appearance
RECURSIVE Dedup(_)
Dedup(q) ==
    IF q = <<>> THEN <<>>
    ELSE LET front == Dedup(SubSeq(q, 1, Len(q) - 1))
             last == q[Len(q)]
         IN IF \E k \in 1..Len(front) : front[k] = last
            THEN front ELSE Append(front, last)

RECURSIVE ConcatAll(_)
ConcatAll(qs) ==
    IF qs = <<>> THEN <<>> ELSE Head(qs) \o ConcatAll(Tail(qs))

Has(q, x) == \E k \in 1..Len(q) : q[k] = x
Pos(q, x) == CHOOSE k \in 1..Len(q) : q[k] = x

\* obj[key] of a JSON object given as a sequence of [key, val], else NaN
Member(obj, key) ==
    IF \E k \in 1..Len(obj) : obj[k].key = key
    THEN obj[CHOOSE k \in 1..Len(obj) : obj[k].key = key].val
    ELSE NaN

\* pd.DataFrame.from_dict(d) for a dict of dicts: one column per outer key,
\* one row per inner key, NaN where an inner dict lacks the key
from_dict(resp) ==
    LET keys == Dedup(ConcatAll([c \in 1..Len(resp) |->
                        [k \in 1..Len(resp[c].obj) |-> resp[c].obj[k].key]]))
    IN [index |-> [r \in 1..Len(keys) |-> StrL(keys[r])],
        columns |-> [c \in 1..Len(resp) |-> StrL(resp[c].symbol)],
        data |-> [r \in 1..Len(keys) |->
                    [c \in 1..Len(resp) |-> Member(resp[c].obj, keys[r])]]]

transpose(df) ==
    [index |-> df.columns,
     columns |-> df.index,
     data |-> [r \in 1..Len(df.columns) |->
                 [c \in 1..Len(df.index) |-> df.data[c][r]]]]

\* data_df['symbol'] = data_df.index
set_symbol_column(df) ==
    [index |-> df.index,
     columns |-> Append(df.columns, StrL("symbol")),
     data |-> [r \in 1..Len(df.index) |->
                 Append(df.data[r], StrCell(df.index[r].s))]]

\* data_df.reset_index(drop=True)
reset_index(df) ==
    [df EXCEPT !.index = [r \in 1..Len(df.index) |-> IntL(r - 1)]]

\* pd.Series(cell): the members of a dict, or the scalar under label 0
to_series(cell) ==
    IF cell.tag = "dict"
    THEN [index |-> [k \in 1..Len(cell.items) |-> StrL(cell.items[k].key)],
          values |-> [k \in 1..Len(cell.items) |-> Num(cell.items[k].num)]]
    ELSE [index |-> <<IntL(0)>>, values |-> <<cell>>]

\* data_df[label].apply(pd.Series): one row per cell, the columns are the
\* labels of all the series
apply_series(df, label) ==
    LET col == [r \in 1..Len(df.index) |-> df.data[r][Pos(df.columns, label)]]
        ser == [r \in 1..Len(col) |-> to_series(col[r])]
        labels == Dedup(ConcatAll([r \in 1..Len(ser) |-> ser[r].index]))
    IN [index |-> df.index,
        columns |-> labels,
        data |-> [r \in 1..Len(col) |->
                    [c \in 1..Len(labels) |->
                       IF Has(ser[r].index, labels[c])
                       THEN ser[r].values[Pos(ser[r].index, labels[c])]
                       ELSE NaN]]]

\* pd.merge(left, right, left_index=True, right_index=True) of two frames
\* with the same index: columns side by side, a label present on both
\* sides gets the suffix _x on the left and _y on the right
merge(left, right) ==
    LET lcol(c) == IF Has(right.columns, left.columns[c])
                   THEN [left.columns[c] EXCEPT !.sfx = "_x"]
                   ELSE left.columns[c]
        rcol(c) == IF Has(left.columns, right.columns[c])
                   THEN [right.columns[c] EXCEPT !.sfx = "_y"]
                   ELSE right.columns[c]
    IN [index |-> left.index,
        columns |-> [c \in 1..Len(left.columns) |-> lcol(c)]
                    \o [c \in 1..Len(right.columns) |-> rcol(c)],
        data |-> [r \in 1..Len(left.index) |-> left.data[r] \o right.data[r]]]

\* data_df.drop(label, axis=1)
RECURSIVE Keep(_, _, _)
Keep(q, labels, label) ==
    IF q = <<>> THEN <<>>
    ELSE LET rest == Keep(Tail(q), Tail(labels), label)
         IN IF Head(labels) = label THEN rest ELSE <<Head(q)>> \o rest
drop(df, label) ==
    [index |-> df.index,
     columns |-> Keep(df.columns, df.columns, label),
     data |-> [r \in 1..Len(df.index) |-> Keep(df.data[r], df.columns, label)]]

EmptyFrame == [index |-> <<>>, columns |-> <<>>, data |-> <<>>]

\* the body shared by get_symbol_stats (nested = 'stats') and
\* get_advanced_symbol_stats (nested = 'advanced-stats')
flatten(resp, nested) ==
    LET data_df == reset_index(set_symbol_column(transpose(from_dict(resp))))
    IN IF ~Has(data_df.columns, StrL(nested))
       THEN \* data_df[nested] raises KeyError
            [outcome |-> "KeyError", df |-> EmptyFrame]
       ELSE [outcome |-> "ok",
             df |-> drop(merge(data_df, apply_series(data_df, StrL(nested))),
                         StrL(nested))]

FlatSyms == {"AAPL", "TSLA", "MSFT"}
\* the nested objects a symbol may carry
NestedObjects ==
    { Dict(<<>>),
      Dict(<<[key |-> "peRatio", num |-> 30]>>),
      Dict(<<[key |-> "peRatio", num |-> 15], [key |-> "beta", num |-> 1]>>) }
\* the JSON objects a symbol may map to: the nested key present or absent,
\* the price present or absent
SymbolObjects(nested) ==
    LET nest == {<<>>} \cup {<<[key |-> nested, val |-> d]>> : d \in NestedObjects}
        price == {<<>>, <<[key |-> "price", val |-> Num(100)]>>}
    IN {a \o b : a \in nest, b \in price}
\* sequences of distinct symbols
DistinctSeqs(S, n) ==
    {q \in SeqsUpTo(S, n) : \A i, j \in 1..Len(q) : i # j => q[i] # q[j]}
Responses(nested) ==
    UNION { {[k \in 1..Len(q) |-> [symbol |-> q[k], obj |-> o[k]]] :
               o \in [1..Len(q) -> SymbolObjects(nested)]} :
            q \in DistinctSeqs(FlatSyms, MaxFlatSyms) }

\* a call of one of the two methods, with the JSON object the API answered
InitFlatten ==
    /\ ClientIdle
    /\ gen = NoGen
    /\ mom = NoMom
    /\ \/ \E resp \in Responses("stats") :
             flat = [fn |-> "get_symbol_stats", nested |-> "stats",
                     resp |-> resp, outcome |-> "called", df |-> EmptyFrame]
       \/ \E resp \in Responses("advanced-stats") :
             flat = [fn |-> "get_advanced_symbol_stats",
                     nested |-> "advanced-stats",
                     resp |-> resp, outcome |-> "called", df |-> EmptyFrame]

GetSymbolStats ==
    /\ flat.fn = "get_symbol_stats"
    /\ flat.outcome = "called"
    /\ LET o == flatten(flat.resp, "stats")
       IN flat' = [flat EXCEPT !.outcome = o.outcome, !.df = o.df]
    /\ UNCHANGED <<client, gen, mom>>

GetAdvancedSymbolStats ==
    /\ flat.fn = "get_advanced_symbol_stats"
    /\ flat.outcome = "called"
    /\ LET o == flatten(flat.resp, "advanced-stats")
       IN flat' = [flat EXCEPT !.outcome = o.outcome, !.df = o.df]
    /\ UNCHANGED <<client, gen, mom>>

NextFlatten ==
    \/ GetSymbolStats
    \/ GetAdvancedSymbolStats

SpecFlatten == InitFlatten /\ [][NextFlatten]_vars

\* the cell of row r under the column labelled x, NaN when there is no
\* such column
CellAt(df, r, x) ==
    IF Has(df.columns, StrL(x)) THEN df.data[r][Pos(df.columns, StrL(x))] ELSE NaN
\* the fields any symbol of the response carries under the nested key
NestedFields(resp, nested) ==
    { it.key : it \in UNION { {Member(resp[k].obj, nested).items[i] :
                                 i \in 1..Len(Member(resp[k].obj, nested).items)} :
                              k \in 1..Len(resp) } }
\* row r of the result is the flattened row of the r-th symbol of resp
RowOk(df, resp, nested, r) ==
    /\ CellAt(df, r, "symbol") = StrCell(resp[r].symbol)
    /\ \A f \in NestedFields(resp, nested) :
          LET d == Member(resp[r].obj, nested)
          IN IF d.tag = "dict" /\ \E i \in 1..Len(d.items) : d.items[i].key = f
             THEN CellAt(df, r, f).tag = "num"
                  /\ \E i \in 1..Len(d.items) :
                        d.items[i].key = f /\ d.items[i].num = CellAt(df, r, f).num
             ELSE CellAt(df, r, f) = NaN
FlattenedOk ==
    /\ flat.outcome = "ok"
    /\ Len(flat.df.index) = Len(flat.resp)
    /\ ~Has(flat.df.columns, StrL(flat.nested))
    /\ \A r \in 1..Len(flat.resp) : RowOk(flat.df, flat.resp, flat.nested, r)

\* C6: the flattener applied to a JSON object keyed by symbol gives one row
\* per symbol, with the symbol as a field, the nested object's fields merged
\* into the row and the nested key removed; a symbol without the nested key
\* gets a row with those fields unset; the operation does not fail, also
\* when no symbol of the response carries the nested key. (Stated for the
\* responses with at least one symbol.)
C6_FlattenTolerant ==
    (flat.outcome # "called" /\ Len(flat.resp) >= 1) => FlattenedOk

\* what the code does do: when at least one symbol of the response carries
\* the nested key the rows are as C6 says, otherwise KeyError is raised
FlattenWhenSomeNested ==
    flat.outcome # "called"
    => IF \E k \in 1..Len(flat.resp) :
             \E i \in 1..Len(flat.resp[k].obj) : flat.resp[k].obj[i].key = flat.nested
       THEN FlattenedOk
       ELSE flat.outcome = "KeyError"

\* the example of the specification: AAPL with peRatio 30, TSLA without stats
FlattenExample ==
    /\ flat.fn = "get_symbol_stats"
    /\ Len(flat.resp) = 2
    /\ flat.resp[1] = [symbol |-> "AAPL",
                       obj |-> <<[key |-> "stats",
                                  val |-> Dict(<<[key |-> "peRatio", num |-> 30]>>)]>>]
    /\ flat.resp[2] = [symbol |-> "TSLA", obj |-> <<>>]
    /\ flat.outcome = "ok"
    /\ CellAt(flat.df, 1, "peRatio") = Num(30)
    /\ CellAt(flat.df, 2, "peRatio") = NaN

---------------------------------------------------------------------------
(* Analysis.momentum_analysis                                               *)

\* most rows of stats_df, and the largest change value (values are 1..MaxVal)
MaxRows == 4
MaxVal == 3

\* numeric cells: a missing value (NaN) or the rational num/den in lowest
\* terms; the code computes in float64, the model exactly
Missing == [nan |-> TRUE, num |-> 0, den |-> 1]
RECURSIVE GCD(_, _)
GCD(a, b) == IF b = 0 THEN a ELSE GCD(b, a % b)
Val(a, b) == [nan |-> FALSE, num |-> a \div GCD(a, b), den |-> b \div GCD(a, b)]

Less(a, b) == a.num * b.den < b.num * a.den
Add(a, b) == Val(a.num * b.den + b.num * a.den, a.den * b.den)

RECURSIVE SumSet(_)
SumSet(S) == IF S = {} THEN 0 ELSE LET x == CHOOSE y \in S : TRUE
                                   IN x + SumSet(S \ {x})
RECURSIVE SumCells(_)
SumCells(q) == IF q = <<>> THEN Val(0, 1) ELSE Add(Head(q), SumCells(Tail(q)))

IsPresent(c) == ~c.nan

\* the four columns momentum_analysis selects besides 'symbol', in order
ChangeColumns ==
    <<"month1ChangePercent", "month3ChangePercent", "month6ChangePercent",
      "year1ChangePercent">>
\* time + "_tile"
TileName(time) == time \o "_tile"
TileColumns == [k \in 1..Len(ChangeColumns) |-> TileName(ChangeColumns[k])]

\* (variants: method='min' and method='max', ties on their lowest and on
\* their highest position)
rank_pct_min(col) ==
    LET present == SelectSeq(col, IsPresent)
        sorted == SortSeq(present, Less)
        m == Len(sorted)
    IN [i \in 1..Len(col) |->
          IF col[i].nan THEN Missing
          ELSE LET positions == {p \in 1..m : sorted[p] = col[i]}
               IN Val(CHOOSE p \in positions : \A q \in positions : p <= q, m)]
rank_pct_max(col) ==
    LET present == SelectSeq(col, IsPresent)
        sorted == SortSeq(present, Less)
        m == Len(sorted)
    IN [i \in 1..Len(col) |->
          IF col[i].nan THEN Missing
          ELSE LET positions == {p \in 1..m : sorted[p] = col[i]}
               IN Val(CHOOSE p \in positions : \A q \in positions : p >= q, m)]
\* Series.rank(pct=True) with the defaults method='average' and
\* na_option='keep': the values are sorted, each takes the mean of the
\* 1-based positions its ties occupy, divided by the count of values
\* present; a missing value keeps a missing rank
rank_pct(col) ==
    LET present == SelectSeq(col, IsPresent)
        sorted == SortSeq(present, Less)
        m == Len(sorted)
    IN [i \in 1..Len(col) |->
          IF col[i].nan THEN Missing
          ELSE LET positions == {p \in 1..m : sorted[p] = col[i]}
               IN Val(SumSet(positions), Cardinality(positions) * m)]

\* (variant: a mean that counts a missing cell as zero)
row_mean_fillzero(cells) ==
    LET present == SelectSeq(cells, IsPresent)
    IN IF present = <<>> THEN Missing
       ELSE LET t == SumCells(present) IN Val(t.num, t.den * Len(cells))
\* DataFrame.mean(axis=1) of one row, with the default skipna=True: the
\* mean of the cells present, missing when none is
row_mean(cells) ==
    LET present == SelectSeq(cells, IsPresent)
    IN IF present = <<>> THEN Missing
       ELSE LET t == SumCells(present) IN Val(t.num, t.den * Len(present))

\* a DataFrame as [n, columns, col]: the number of rows, the column names in
\* order, and each column as a sequence of n cells ('symbol' holds strs)
momentum_analysis(stats_df) ==
    LET selected == <<"symbol">> \o ChangeColumns
        tiles == [t \in {TileColumns[k] : k \in 1..Len(TileColumns)} |->
                    rank_pct(stats_df.col[
                        ChangeColumns[CHOOSE k \in 1..Len(ChangeColumns) :
                                         TileColumns[k] = t]])]
        avg == [i \in 1..stats_df.n |->
                  row_mean([k \in 1..Len(TileColumns) |-> tiles[TileColumns[k]][i]])]
    IN [n |-> stats_df.n,
        columns |-> selected \o TileColumns \o <<"avgPercentiles">>,
        col |-> [c \in {selected[k] : k \in 1..Len(selected)}
                         \cup {TileColumns[k] : k \in 1..Len(TileColumns)}
                         \cup {"avgPercentiles"} |->
                   IF c = "avgPercentiles" THEN avg
                   ELSE IF c \in DOMAIN tiles THEN tiles[c]
                   ELSE stats_df.col[c]]]

\* the tables enumerated: up to MaxRows rows; one of the four change
\* columns takes every combination of values 1..MaxVal and NaN, each of the
\* other three is one of two fixed columns (one complete, one with holes)
RowSymbols == <<"S1", "S2", "S3", "S4", "S5", "S6">>
CellValues == {Missing} \cup {Val(v, 1) : v \in 1..MaxVal}
FixedColumns(n) ==
    { [i \in 1..n |-> Val(1 + (i % MaxVal), 1)],
      [i \in 1..n |-> IF i % 2 = 1 THEN Missing ELSE Val(1, 1)] }
ChangeNames == {ChangeColumns[k] : k \in 1..Len(ChangeColumns)}
StatsFrame(n, free, v, others) ==
    [n |-> n,
     columns |-> <<"symbol", "peRatio">> \o ChangeColumns,
     col |-> [c \in {"symbol", "peRatio"} \cup ChangeNames |->
                IF c = "symbol" THEN SubSeq(RowSymbols, 1, n)
                ELSE IF c = "peRatio" THEN [i \in 1..n |-> Val(30, 1)]
                ELSE IF c = free THEN v
                ELSE others[c]]]

EmptyTable == [n |-> 0, columns |-> <<>>, col |-> <<>>]

\* a call of momentum_analysis with its argument
InitMomentum ==
    /\ ClientIdle
    /\ gen = NoGen
    /\ flat = NoFlat
    /\ \E n \in 0..MaxRows, free \in ChangeNames :
          \E v \in [1..n -> CellValues],
             others \in [ChangeNames \ {free} -> FixedColumns(n)] :
             mom = [fn |-> "called",
                    stats_df |-> StatsFrame(n, free, v, others),
                    mom_df |-> EmptyTable]

MomentumAnalysis ==
    /\ mom.fn = "called"
    /\ mom' = [mom EXCEPT !.fn = "returned",
                          !.mom_df = momentum_analysis(mom.stats_df)]
    /\ UNCHANGED <<client, gen, flat>>

NextMomentum == MomentumAnalysis

SpecMomentum == InitMomentum /\ [][NextMomentum]_vars


\* reading the argument and the result of a finished call
Returned == mom.fn = "returned"
RowsOf == 1..mom.stats_df.n
Source(k) == mom.stats_df.col[ChangeColumns[k]]
Tile(k) == mom.mom_df.col[TileName(ChangeColumns[k])]
ColumnIds == 1..Len(ChangeColumns)
\* among the rows with a value in column k: how many there are, how many
\* hold a value below that of row i, and how many hold the value of row i
CountPresent(k) == Cardinality({j \in RowsOf : ~Source(k)[j].nan})
CountBelow(k, i) ==
    Cardinality({j \in RowsOf : ~Source(k)[j].nan /\ Less(Source(k)[j], Source(k)[i])})
CountEqual(k, i) ==
    Cardinality({j \in RowsOf : ~Source(k)[j].nan /\ Source(k)[j] = Source(k)[i]})
CountAtOrBelow(k, i) == CountBelow(k, i) + CountEqual(k, i)

\* C7 as claimed: for each change column and every row with a value in it,
\* the percentile is the fraction of the rows with a value in that column
\* whose value is less than or equal to this row's value, ties included.
C7_FractionAtOrBelow ==
    Returned =>
      \A k \in ColumnIds : \A i \in RowsOf :
         ~Source(k)[i].nan
         => /\ ~Tile(k)[i].nan
            /\ Tile(k)[i].num * CountPresent(k)
                 = CountAtOrBelow(k, i) * Tile(k)[i].den

\* C7 as amended: the percentile is that fraction exactly for a row whose
\* value no other row of the column holds; for a row in a group of e >= 2
\* rows holding the same value it is the fraction lowered by
\* (e - 1) / (2 * count), so strictly below it.
C7_FractionUnlessTied ==
    Returned =>
      \A k \in ColumnIds : \A i \in RowsOf :
         ~Source(k)[i].nan
         => /\ ~Tile(k)[i].nan
            /\ CountEqual(k, i) = 1
               => Tile(k)[i].num * CountPresent(k)
                    = CountAtOrBelow(k, i) * Tile(k)[i].den
            /\ CountEqual(k, i) >= 2
               => /\ Tile(k)[i].num * 2 * CountPresent(k)
                       = (2 * CountAtOrBelow(k, i) - (CountEqual(k, i) - 1))
                           * Tile(k)[i].den
                  /\ Tile(k)[i].num * CountPresent(k)
                       < CountAtOrBelow(k, i) * Tile(k)[i].den

\* a column with two tied rows and a row above them: the row above gets 1,
\* the tied rows get less than the 2/3 at or below them
C7_Witness ==
    /\ Returned
    /\ mom.stats_df.n = 3
    /\ Source(2) = <<Val(1, 1), Val(2, 1), Val(1, 1)>>
    /\ Tile(2) = <<Val(1, 2), Val(1, 1), Val(1, 2)>>

\* C8: rows holding equal values in a change column get equal percentiles;
\* the shared percentile is the average of the 1-based rank positions the
\* tied rows occupy (below + 1 .. below + equal) divided by the count of
\* values present in the column; every percentile lies in [0, 1].
C8_TiesShareAverageRank ==
    Returned =>
      \A k \in ColumnIds : \A i \in RowsOf :
         ~Source(k)[i].nan
         => /\ ~Tile(k)[i].nan
            /\ \A j \in RowsOf : Source(k)[j] = Source(k)[i] => Tile(k)[j] = Tile(k)[i]
            /\ Tile(k)[i].num * 2 * CountPresent(k)
                 = (2 * CountBelow(k, i) + CountEqual(k, i) + 1) * Tile(k)[i].den
            /\ Tile(k)[i].num >= 0
            /\ Tile(k)[i].den > 0
            /\ Tile(k)[i].num <= Tile(k)[i].den

\* the example of the specification: month1ChangePercent 0.10, 0.05, 0.20,
\* 0.05 (here 2, 1, 3, 1): the tied rows get (1 + 2) / 2 / 4 = 3/8
C8_Witness ==
    /\ Returned
    /\ mom.stats_df.n = 4
    /\ Source(1) = <<Val(2, 1), Val(1, 1), Val(3, 1), Val(1, 1)>>
    /\ Tile(1) = <<Val(3, 4), Val(3, 8), Val(1, 1), Val(3, 8)>>

\* the percentile of row i in column k as a fraction, 0/1 when missing
TileNum(k, i) == IF Tile(k)[i].nan THEN 0 ELSE Tile(k)[i].num
TileDen(k, i) == IF Tile(k)[i].nan THEN 1 ELSE Tile(k)[i].den
Available(i) == {k \in ColumnIds : ~Tile(k)[i].nan}
\* the sum of the available percentiles of row i, over the common
\* denominator TileDen(1, i) * .. * TileDen(4, i)
SumDen(i) == TileDen(1, i) * TileDen(2, i) * TileDen(3, i) * TileDen(4, i)
SumNum(i) ==
      TileNum(1, i) * TileDen(2, i) * TileDen(3, i) * TileDen(4, i)
    + TileNum(2, i) * TileDen(1, i) * TileDen(3, i) * TileDen(4, i)
    + TileNum(3, i) * TileDen(1, i) * TileDen(2, i) * TileDen(4, i)
    + TileNum(4, i) * TileDen(1, i) * TileDen(2, i) * TileDen(3, i)
Avg(i) == mom.mom_df.col["avgPercentiles"][i]

\* C9: a row missing the source value of a column has a missing percentile
\* there (and a present one where the value is present); the average of a
\* row is the arithmetic mean of its available percentiles only, so a
\* missing percentile neither counts as zero nor makes the average missing
\* (the average is missing only for a row with no percentile at all); the
\* result has the rows of the input, in input order, with their values.
C9_MeanOfAvailable ==
    Returned =>
      /\ mom.mom_df.n = mom.stats_df.n
      /\ mom.mom_df.col["symbol"] = mom.stats_df.col["symbol"]
      /\ mom.mom_df.columns
           = <<"symbol">> \o ChangeColumns \o TileColumns \o <<"avgPercentiles">>
      /\ \A k \in ColumnIds :
            /\ mom.mom_df.col[ChangeColumns[k]] = Source(k)
            /\ Len(Tile(k)) = mom.stats_df.n
            /\ \A i \in RowsOf : Tile(k)[i].nan <=> Source(k)[i].nan
      /\ Len(mom.mom_df.col["avgPercentiles"]) = mom.stats_df.n
      /\ \A i \in RowsOf :
            IF Available(i) = {}
            THEN Avg(i).nan
            ELSE /\ ~Avg(i).nan
                 /\ Avg(i).num * SumDen(i) * Cardinality(Available(i))
                      = SumNum(i) * Avg(i).den

\* a row with exactly three of its four values, whose average is the mean
\* of its three percentiles and differs from a quarter of their sum
C9_Witness ==
    /\ Returned
    /\ \E i \in RowsOf :
          /\ Cardinality(Available(i)) = 3
          /\ ~Avg(i).nan
          /\ Avg(i).num * SumDen(i) * 3 = SumNum(i) * Avg(i).den
          /\ Avg(i).num * SumDen(i) * 4 # SumNum(i) * Avg(i).den
    /\ \E i \in RowsOf : Cardinality(Available(i)) = 4

============================================================================
